---- MODULE Spec2Model ----
(***************************************************************************)
(* Model of the POST /pdf handler of src/src/index.ts.  The file holds two *)
(* variants of the handler: one that calls the rendering provider through  *)
(* the Cloudflare client library ("lib", lines 108-211) and one that uses  *)
(* a raw fetch ("fetch", lines 351-423).  Several requests are handled     *)
(* concurrently; every request walks through the handler's statements.     *)
(***************************************************************************)
EXTENDS Integers, Sequences, FiniteSets, TLC

\* ---------------------------------------------------------------- bounds
NumRequests == 2
MaxPayloadLen == 1

Requests == 1..NumRequests
Variants == {"lib", "fetch"}

\* ------------------------------------------------------------- JS values
Undefined == [t |-> "undefined", s |-> ""]
Unread == [t |-> "unread", s |-> ""]
Str(x) == [t |-> "string", s |-> x]

\* a check that only catches a missing value
FalsyMissingOnly(v) == v.t = "undefined"

\* JavaScript truthiness of an optional string: `!v` (lines 114, 125)
Falsy(v) == v.t = "undefined" \/ v.s = ""

\* values `body.html` can have when the handler runs
HtmlValues == {Undefined, Str(""), Str("<h1>Hi</h1>"), Str("<p>x</p>")}

\* values of one optional binding of Env (lines 5-8)
EnvValues == {Undefined, Str(""), Str("set")}

\* ---------------------------------------------------------- provider side
Bytes == {37, 80}

RECURSIVE SeqsUpTo(_)
SeqsUpTo(n) ==
  IF n = 0 THEN {<<>>}
  ELSE LET S == SeqsUpTo(n - 1)
       IN S \cup {Append(s, b) : s \in {x \in S : Len(x) = n - 1}, b \in Bytes}

Payloads == SeqsUpTo(MaxPayloadLen)

Statuses == {200, 401}

\* what the provider call can do: reject, or answer with a status and a body
\* whose reading (arrayBuffer() / text()) can itself fail
Thrown == {[isError |-> TRUE, message |-> "fetch failed"],
           [isError |-> FALSE, message |-> ""]}

ProviderOutcomes ==
  {[kind |-> "throw", thrown |-> e, status |-> 0, body |-> <<>>, readOk |-> FALSE] :
      e \in Thrown}
  \cup
  {[kind |-> "http", thrown |-> [isError |-> FALSE, message |-> ""],
    status |-> st, body |-> b, readOk |-> TRUE] : st \in Statuses, b \in Payloads}
  \cup
  {[kind |-> "http", thrown |-> [isError |-> FALSE, message |-> ""],
    status |-> st, body |-> <<>>, readOk |-> FALSE] : st \in Statuses}

NoOutcome == [kind |-> "none", thrown |-> [isError |-> FALSE, message |-> ""],
              status |-> 0, body |-> <<>>, readOk |-> FALSE]

\* Response.ok
Ok(status) == status >= 200 /\ status <= 299

\* response.text(): the bytes decoded as characters
Chr(b) == IF b = 37 THEN "%" ELSE "P"

RECURSIVE Decode(_)
Decode(bytes) == IF bytes = <<>> THEN "" ELSE Chr(Head(bytes)) \o Decode(Tail(bytes))

\* the error thrown while reading a response body
ReadError == [isError |-> TRUE, message |-> "body read failed"]

\* ------------------------------------------------------------- responses
\* c.json(obj, status)
JsonResponse(error, details, status) ==
  [status |-> status,
   headers |-> {<<"Content-Type", "application/json">>},
   kind |-> "json", error |-> error, details |-> details, bytes |-> <<>>]

ValidationResponse ==
  JsonResponse(Str("HTML content is required in the request body"), Undefined, 400)

ConfigurationResponse ==
  JsonResponse(Str("Cloudflare credentials not configured. Please set CLOUDFLARE_ACCOUNT_ID and CLOUDFLARE_API_TOKEN environment variables."),
               Undefined, 500)

\* a copy of the buffer that loses its last byte
SuccessResponseTruncated(pdfBuffer) ==
  [status |-> 200,
   headers |-> {<<"Content-Type", "application/pdf">>,
                <<"Content-Disposition", "attachment; filename=\"generated.pdf\"">>},
   kind |-> "binary", error |-> Undefined, details |-> Undefined,
   bytes |-> IF pdfBuffer = <<>> THEN <<>> ELSE SubSeq(pdfBuffer, 1, Len(pdfBuffer) - 1)]

\* new Response(pdfBuffer, { headers })
SuccessResponse(pdfBuffer) ==
  [status |-> 200,
   headers |-> {<<"Content-Type", "application/pdf">>,
                <<"Content-Disposition", "attachment; filename=\"generated.pdf\"">>},
   kind |-> "binary", error |-> Undefined, details |-> Undefined, bytes |-> pdfBuffer]

\* catch (error) { ... }
CatchResponse(thrown) ==
  JsonResponse(Str("Failed to generate PDF"),
               Str(IF thrown.isError THEN thrown.message ELSE "Unknown error"),
               500)

\* if (!response.ok) { ... } of the fetch variant
UpstreamResponse(errorText, status) ==
  JsonResponse(Str("Failed to generate PDF from Cloudflare API"), Str(errorText), status)

\* the client library rejects a non-2xx answer with an Error
APIError(o) == [isError |-> TRUE, message |-> ToString(o.status) \o " " \o Decode(o.body)]

\* a handler that builds the PDF response although reading the body failed
HandleOutcomeIgnoringReadFailure(v, o) ==
  IF o.kind = "throw" THEN CatchResponse(o.thrown)
  ELSE IF ~Ok(o.status) THEN
         IF v = "lib" THEN CatchResponse(APIError(o))
         ELSE IF o.readOk THEN UpstreamResponse(Decode(o.body), o.status)
              ELSE CatchResponse(ReadError)
  ELSE SuccessResponse(o.body)

\* what the handler returns once the awaited provider call has settled
HandleOutcome(v, o) ==
  IF o.kind = "throw" THEN CatchResponse(o.thrown)
  ELSE IF ~Ok(o.status) THEN
         IF v = "lib" THEN CatchResponse(APIError(o))
         ELSE IF o.readOk THEN UpstreamResponse(Decode(o.body), o.status)
              ELSE CatchResponse(ReadError)
  ELSE IF o.readOk THEN SuccessResponse(o.body)
       ELSE CatchResponse(ReadError)

\* ---------------------------------------------------------- outbound call
NoOptions == [addScriptTag |-> <<>>, printBackground |-> FALSE]

FixedOptions == [addScriptTag |-> <<"https://cdn.jsdelivr.net/npm/@tailwindcss/browser@4">>,
                 printBackground |-> TRUE]

\* the create call without pdfOptions
LibCallNoPdfOptions(h, accountId, apiToken) ==
  [html |-> h,
   options |-> [addScriptTag |-> <<"https://cdn.jsdelivr.net/npm/@tailwindcss/browser@4">>,
                printBackground |-> FALSE],
   account |-> accountId, token |-> apiToken]

\* client.browserRendering.pdf.create({...})
LibCall(h, accountId, apiToken) ==
  [html |-> h, options |-> FixedOptions, account |-> accountId, token |-> apiToken]

\* a fetch whose body is built without the request's html
FetchCallWithoutHtml(h, accountId, apiToken) ==
  [html |-> Undefined, options |-> NoOptions, account |-> accountId, token |-> apiToken]

\* fetch(url, { body: JSON.stringify({ html }) })
FetchCall(h, accountId, apiToken) ==
  [html |-> h, options |-> NoOptions, account |-> accountId, token |-> apiToken]

ProviderCall(v, h, accountId, apiToken) ==
  IF v = "lib" THEN LibCall(h, accountId, apiToken) ELSE FetchCall(h, accountId, apiToken)

\* a check that fires only when both values are missing
CredentialsBothMissing(accountId, apiToken) == Falsy(accountId) /\ Falsy(apiToken)

\* if (!accountId || !apiToken)
CredentialsMissing(accountId, apiToken) == Falsy(accountId) \/ Falsy(apiToken)

\* -------------------------------------------------------------- state
VARIABLES env, pc, variant, html, accountId, apiToken, calls, outcome, responses

vars == <<env, pc, variant, html, accountId, apiToken, calls, outcome, responses>>

Init ==
  /\ env \in [CLOUDFLARE_ACCOUNT_ID : EnvValues, CLOUDFLARE_API_TOKEN : EnvValues]
  /\ pc = [r \in Requests |-> "idle"]
  /\ variant = [r \in Requests |-> "lib"]
  /\ html = [r \in Requests |-> Unread]
  /\ accountId = [r \in Requests |-> Unread]
  /\ apiToken = [r \in Requests |-> Unread]
  /\ calls = [r \in Requests |-> <<>>]
  /\ outcome = [r \in Requests |-> NoOutcome]
  /\ responses = [r \in Requests |-> <<>>]

\* a request reaches one of the two handlers; const html = body.html
Receive(r) ==
  /\ pc[r] = "idle"
  /\ \E v \in Variants, h \in HtmlValues :
       /\ variant' = [variant EXCEPT ![r] = v]
       /\ html' = [html EXCEPT ![r] = h]
  /\ pc' = [pc EXCEPT ![r] = "validate"]
  /\ UNCHANGED <<env, accountId, apiToken, calls, outcome, responses>>

\* a handler that looks at the configuration before the html
ValidateAfterConfig(r) ==
  /\ pc[r] = "validate"
  /\ IF CredentialsMissing(env.CLOUDFLARE_ACCOUNT_ID, env.CLOUDFLARE_API_TOKEN)
     THEN /\ responses' = [responses EXCEPT ![r] = Append(@, ConfigurationResponse)]
          /\ pc' = [pc EXCEPT ![r] = "done"]
     ELSE IF Falsy(html[r])
          THEN /\ responses' = [responses EXCEPT ![r] = Append(@, ValidationResponse)]
               /\ pc' = [pc EXCEPT ![r] = "done"]
          ELSE /\ pc' = [pc EXCEPT ![r] = "config"]
               /\ UNCHANGED responses
  /\ UNCHANGED <<env, variant, html, accountId, apiToken, calls, outcome>>

\* if (!html) return c.json({ error }, 400)
Validate(r) ==
  /\ pc[r] = "validate"
  /\ IF Falsy(html[r])
     THEN /\ responses' = [responses EXCEPT ![r] = Append(@, ValidationResponse)]
          /\ pc' = [pc EXCEPT ![r] = "done"]
     ELSE /\ pc' = [pc EXCEPT ![r] = "config"]
          /\ UNCHANGED responses
  /\ UNCHANGED <<env, variant, html, accountId, apiToken, calls, outcome>>

\* read c.env; if (!accountId || !apiToken) return c.json({ error }, 500)
CheckConfig(r) ==
  /\ pc[r] = "config"
  /\ accountId' = [accountId EXCEPT ![r] = env.CLOUDFLARE_ACCOUNT_ID]
  /\ apiToken' = [apiToken EXCEPT ![r] = env.CLOUDFLARE_API_TOKEN]
  /\ IF CredentialsMissing(env.CLOUDFLARE_ACCOUNT_ID, env.CLOUDFLARE_API_TOKEN)
     THEN /\ responses' = [responses EXCEPT ![r] = Append(@, ConfigurationResponse)]
          /\ pc' = [pc EXCEPT ![r] = "done"]
     ELSE /\ pc' = [pc EXCEPT ![r] = "invoke"]
          /\ UNCHANGED responses
  /\ UNCHANGED <<env, variant, html, calls, outcome>>

\* the outbound call is issued and the handler suspends on `await`
Invoke(r) ==
  /\ pc[r] = "invoke"
  /\ calls' = [calls EXCEPT ![r] =
                 Append(@, ProviderCall(variant[r], html[r], accountId[r], apiToken[r]))]
  /\ pc' = [pc EXCEPT ![r] = "await"]
  /\ UNCHANGED <<env, variant, html, accountId, apiToken, outcome, responses>>

\* the provider call of request r settles
ProviderSettles(r) ==
  /\ pc[r] = "await"
  /\ \E o \in ProviderOutcomes : outcome' = [outcome EXCEPT ![r] = o]
  /\ pc' = [pc EXCEPT ![r] = "settled"]
  /\ UNCHANGED <<env, variant, html, accountId, apiToken, calls, responses>>

\* a handler that keeps the provider's last result in a module-level variable
RespondFromShared(r) ==
  /\ pc[r] = "settled"
  /\ \E q \in Requests :
       /\ outcome[q] # NoOutcome
       /\ responses' = [responses EXCEPT ![r] = Append(@, HandleOutcome(variant[r], outcome[q]))]
  /\ pc' = [pc EXCEPT ![r] = "done"]
  /\ UNCHANGED <<env, variant, html, accountId, apiToken, calls, outcome>>

\* the handler resumes and returns its response
Respond(r) ==
  /\ pc[r] = "settled"
  /\ responses' = [responses EXCEPT ![r] = Append(@, HandleOutcome(variant[r], outcome[r]))]
  /\ pc' = [pc EXCEPT ![r] = "done"]
  /\ UNCHANGED <<env, variant, html, accountId, apiToken, calls, outcome>>

Step(r) ==
  \/ Receive(r)
  \/ Validate(r)
  \/ CheckConfig(r)
  \/ Invoke(r)
  \/ ProviderSettles(r)
  \/ Respond(r)

Next == \E r \in Requests : Step(r)

Spec == Init /\ [][Next]_vars

\* ------------------------------------------------------- claim vocabulary
Done(r) == pc[r] = "done"
HtmlEmpty(r) == html[r] \in {Undefined, Str("")}
HtmlGiven(r) == html[r].t = "string" /\ html[r].s # ""
EnvUnset ==
  \/ env.CLOUDFLARE_ACCOUNT_ID \in {Undefined, Str("")}
  \/ env.CLOUDFLARE_API_TOKEN \in {Undefined, Str("")}
OneResponse(r) == Len(responses[r]) = 1
Resp(r) == responses[r][1]
IsSuccess(x) == x.status = 200 /\ <<"Content-Type", "application/pdf">> \in x.headers
IsJsonError(x) == x.kind = "json" /\ x.error.t = "string" /\ x.error.s # ""
ProviderAnswered2xx(r) ==
  outcome[r].kind = "http" /\ outcome[r].status \in 200..299 /\ outcome[r].readOk
ProviderFailed(r) == outcome[r].kind \in {"throw", "http"} /\ ~ProviderAnswered2xx(r)
ProviderNon2xx(r) == outcome[r].kind = "http" /\ outcome[r].status \notin 200..299

\* C1: a request whose html is missing or empty gets status 400 with a JSON
\* body holding an error field, whatever the configuration, and never causes
\* an outbound provider call.
C1_EmptyHtmlRejected ==
  \A r \in Requests :
    HtmlEmpty(r) =>
      /\ calls[r] = <<>>
      /\ Done(r) => OneResponse(r) /\ Resp(r).status = 400 /\ IsJsonError(Resp(r))

C1_Witness ==
  \E r \in Requests :
    Done(r) /\ html[r] = Str("") /\ ~EnvUnset /\ OneResponse(r) /\ Resp(r).status = 400

\* C2 as stated: with a configuration value unset or empty every request,
\* also one with missing or empty html, gets status 500 and no outbound call.
C2_Original ==
  \A r \in Requests :
    (Done(r) /\ EnvUnset) => OneResponse(r) /\ Resp(r).status = 500 /\ calls[r] = <<>>

\* C2 amended: with a configuration value unset or empty no outbound call is
\* made; a request with non-empty html gets status 500 with an error body,
\* a request with missing or empty html gets status 400.
C2_Amended ==
  \A r \in Requests :
    EnvUnset =>
      /\ calls[r] = <<>>
      /\ (Done(r) /\ HtmlGiven(r)) =>
            OneResponse(r) /\ Resp(r).status = 500 /\ IsJsonError(Resp(r))
      /\ (Done(r) /\ HtmlEmpty(r)) => OneResponse(r) /\ Resp(r).status = 400

C2_Witness ==
  \E r \in Requests :
    /\ Done(r) /\ HtmlGiven(r) /\ OneResponse(r) /\ Resp(r).status = 500
    /\ env.CLOUDFLARE_ACCOUNT_ID = Str("set") /\ env.CLOUDFLARE_API_TOKEN = Str("")

C4_Passthrough ==
  \A r \in Requests :
    (Done(r) /\ ProviderAnswered2xx(r)) =>
      /\ OneResponse(r)
      /\ Resp(r).status = 200
      /\ Resp(r).headers =
           {<<"Content-Type", "application/pdf">>,
            <<"Content-Disposition", "attachment; filename=\"generated.pdf\"">>}
      /\ Resp(r).bytes = outcome[r].body

C4_Witness ==
  \E r \in Requests :
    /\ Done(r) /\ ProviderAnswered2xx(r) /\ outcome[r].body # <<>>
    /\ OneResponse(r) /\ Resp(r).bytes = outcome[r].body

\* C5 as stated: when the provider call fails for any reason the response
\* status is 500 and the JSON body holds error and details.
C5_Original ==
  \A r \in Requests :
    (Done(r) /\ HtmlGiven(r) /\ ~EnvUnset /\ ProviderFailed(r)) =>
      /\ OneResponse(r)
      /\ Resp(r).status = 500
      /\ IsJsonError(Resp(r))
      /\ Resp(r).details.t = "string"

\* C6 as stated: every handled request has exactly one outcome, and a
\* Success outcome never has an empty or partial body.
C6_Original ==
  \A r \in Requests :
    Done(r) =>
      /\ OneResponse(r)
      /\ IsSuccess(Resp(r)) # IsJsonError(Resp(r))
      /\ IsSuccess(Resp(r)) => Resp(r).bytes # <<>>

\* C6 amended: every handled request has exactly one outcome, Success or
\* Failure and never both; a Success body is the provider's payload in full
\* (its reading completed), so it is non-empty whenever the provider's
\* payload is; a zero-byte provider answer is passed on as an empty 200.
C6_Amended ==
  \A r \in Requests :
    Done(r) =>
      /\ OneResponse(r)
      /\ IsSuccess(Resp(r)) # IsJsonError(Resp(r))
      /\ IsSuccess(Resp(r)) =>
            /\ outcome[r].kind = "http" /\ outcome[r].readOk
            /\ Resp(r).bytes = outcome[r].body
            /\ outcome[r].body # <<>> => Resp(r).bytes # <<>>

C6_Witness ==
  \E r \in Requests :
    Done(r) /\ OneResponse(r) /\ IsSuccess(Resp(r)) /\ outcome[r].body = <<>>

\* C7 as stated: every response that is not the PDF success has status 400
\* or 500 and a JSON body with a string error and an optional string details.
C7_Original ==
  \A r \in Requests :
    Done(r) =>
      /\ OneResponse(r)
      /\ ~IsSuccess(Resp(r)) =>
            /\ Resp(r).status \in {400, 500}
            /\ IsJsonError(Resp(r))
            /\ Resp(r).details.t \in {"undefined", "string"}

\* the per-request part of the state
ReqState(r) ==
  <<pc[r], variant[r], html[r], accountId[r], apiToken[r], calls[r], outcome[r], responses[r]>>

C8_Isolated ==
  /\ env' = env
  /\ \E q \in Requests : \A r \in Requests \ {q} : ReqState(r)' = ReqState(r)

C8_NeverDelayed ==
  \A r \in Requests : pc[r] # "done" => ENABLED Step(r)

C8_Determined ==
  \A r1, r2 \in Requests :
    (/\ Done(r1) /\ Done(r2)
     /\ variant[r1] = variant[r2] /\ html[r1] = html[r2] /\ outcome[r1] = outcome[r2])
    => responses[r1] = responses[r2] /\ calls[r1] = calls[r2]

C8_OwnResult ==
  \A r \in Requests :
    (Done(r) /\ calls[r] # <<>>) =>
      /\ IsSuccess(Resp(r)) <=> ProviderAnswered2xx(r)
      /\ IsSuccess(Resp(r)) => Resp(r).bytes = outcome[r].body
      /\ (outcome[r].kind = "throw" /\ outcome[r].thrown.isError) =>
            Resp(r).details = Str(outcome[r].thrown.message)

\* C8: under every interleaving a step of one request changes neither the
\* configuration nor any other request's state, a request that is not
\* finished can always take its next step whatever the other requests are
\* waiting for, and the response depends only on the request's own html, the
\* configuration and the result of its own provider call.
C8_NoSharedState ==
  /\ [](C8_NeverDelayed /\ C8_Determined /\ C8_OwnResult)
  /\ [][C8_Isolated]_vars

C8_Witness ==
  \E r1, r2 \in Requests :
    /\ r1 # r2 /\ pc[r1] = "await" /\ Done(r2) /\ calls[r2] # <<>>
    /\ OneResponse(r2) /\ html[r1] # html[r2]

HandlerOrder ==
  {<<"idle", "validate">>, <<"validate", "config">>, <<"validate", "done">>,
   <<"config", "invoke">>, <<"config", "done">>, <<"invoke", "await">>,
   <<"await", "settled">>, <<"settled", "done">>}

C9_StepOrder ==
  \A r \in Requests : pc'[r] # pc[r] => <<pc[r], pc'[r]>> \in HandlerOrder

C9_Positions ==
  \A r \in Requests :
    \* an empty html ends the request before the configuration is read
    /\ (Done(r) /\ HtmlEmpty(r)) =>
          /\ accountId[r] = Unread /\ apiToken[r] = Unread
          /\ responses[r] = <<ValidationResponse>>
    \* the configuration is read only after the html check passed
    /\ accountId[r] # Unread => HtmlGiven(r)
    \* the provider is invoked only after both checks passed
    /\ calls[r] # <<>> =>
          /\ HtmlGiven(r)
          /\ accountId[r] = Str("set") /\ apiToken[r] = Str("set")
    \* the provider settles only after it was invoked
    /\ outcome[r] # NoOutcome => calls[r] # <<>>
    \* a request that invoked the provider answers only after the call settled
    /\ (calls[r] # <<>> /\ responses[r] # <<>>) => outcome[r] # NoOutcome
    /\ responses[r] # <<>> <=> Done(r)

\* C9: the handler's steps run in the order validate html, check
\* configuration, invoke provider, await result, produce response, none of
\* them twice; an empty html ends the request as ValidationError before the
\* configuration is read, also when the configuration is missing.
C9_FixedOrder ==
  /\ []C9_Positions
  /\ [][C9_StepOrder]_vars

C9_Witness ==
  \E r \in Requests :
    Done(r) /\ HtmlEmpty(r) /\ EnvUnset /\ responses[r] = <<ValidationResponse>>

SameInputs(r1, r2) ==
  /\ Done(r1) /\ Done(r2)
  /\ variant[r1] = "lib" /\ variant[r2] = "fetch"
  /\ html[r1] = html[r2] /\ outcome[r1] = outcome[r2]

\* C10 as stated: on the same html, configuration and provider outcome the
\* two variants make the same number of calls with the same html and options
\* and return the same headers and error message; their status differs only
\* when the provider answers non-2xx.
C10_Original ==
  \A r1, r2 \in Requests :
    SameInputs(r1, r2) =>
      /\ Len(calls[r1]) = Len(calls[r2])
      /\ calls[r1] # <<>> =>
            /\ calls[r1][1].html = calls[r2][1].html
            /\ calls[r1][1].options = calls[r2][1].options
      /\ Resp(r1).headers = Resp(r2).headers
      /\ Resp(r1).error = Resp(r2).error
      /\ Resp(r1).status # Resp(r2).status => ProviderNon2xx(r1)

\* C10 amended: on the same inputs the two variants make the same number of
\* calls with the same html, and return the same headers; status and error
\* message are the same unless the provider answers non-2xx; the rendering
\* options are sent by the client-library variant only.
C10_Amended ==
  \A r1, r2 \in Requests :
    SameInputs(r1, r2) =>
      /\ Len(calls[r1]) = Len(calls[r2])
      /\ calls[r1] # <<>> =>
            /\ calls[r1][1].html = calls[r2][1].html
            /\ calls[r1][1].options.printBackground
            /\ ~calls[r2][1].options.printBackground
      /\ Resp(r1).headers = Resp(r2).headers
      /\ Resp(r1).status # Resp(r2).status => ProviderNon2xx(r1)
      /\ Resp(r1).error # Resp(r2).error => ProviderNon2xx(r1)
      /\ Resp(r1).bytes = Resp(r2).bytes

C10_Witness ==
  \E r1, r2 \in Requests :
    /\ SameInputs(r1, r2) /\ outcome[r1].kind = "http" /\ outcome[r1].status = 401
    /\ Resp(r1).status = 500 /\ Resp(r2).status = 401

====
